---- MODULE Spec2Model ----
(***************************************************************************)
(* Model of the static-site generator build/build.js (buildSite and the    *)
(* pure helpers it calls).                                                  *)
(*                                                                         *)
(* Strings are sequences of one-character strings, so trimming, prefix     *)
(* tests, token replacement and slug matching are computed, not assumed.   *)
(* JSON values carry their JavaScript type, so String(), Number() and      *)
(* strict equality behave as in the source.  A finite number n is stored   *)
(* as the integer h = 2n (numbers are multiples of 1/2 in this model), so  *)
(* Math.floor is h \div 2.                                                  *)
(***************************************************************************)
EXTENDS Integers, Sequences, FiniteSets, TLC

(***************************************************************************)
(* Bounds                                                                  *)
(***************************************************************************)
MaxProjects == 3
MaxStale == 2
MaxPieces == 2
MaxHint == 13
MaxPathLen == 3
MaxTextLen == 3
MaxLimit == 5
MaxRuns == 2
MaxEvents == 6

(***************************************************************************)
(* JSON / JavaScript values                                                *)
(***************************************************************************)
Absent == [t |-> "absent", s |-> <<>>, h |-> 0]
Null == [t |-> "null", s |-> <<>>, h |-> 0]
Str(s) == [t |-> "str", s |-> s, h |-> 0]
Num(h) == [t |-> "num", s |-> <<>>, h |-> h]
NaNValue == [t |-> "nan", s |-> <<>>, h |-> 0]
PosInf == [t |-> "inf", s |-> <<>>, h |-> 0]
NegInf == [t |-> "-inf", s |-> <<>>, h |-> 0]
Int2(n) == Num(2 * n)

(***************************************************************************)
(* String primitives of the JavaScript runtime used by build.js            *)
(***************************************************************************)
IsSpace(c) == c = " "

RECURSIVE TrimStart(_)
TrimStart(s) ==
  IF s = <<>> THEN <<>>
  ELSE IF IsSpace(Head(s)) THEN TrimStart(Tail(s)) ELSE s

RECURSIVE TrimEnd(_)
TrimEnd(s) ==
  IF s = <<>> THEN <<>>
  ELSE IF IsSpace(s[Len(s)]) THEN TrimEnd(SubSeq(s, 1, Len(s) - 1)) ELSE s

Trim(s) == TrimEnd(TrimStart(s))

startsWith(s, p) == Len(s) >= Len(p) /\ SubSeq(s, 1, Len(p)) = p

RECURSIVE StripTrailingSlashes(_)
StripTrailingSlashes(s) ==
  IF s = <<>> THEN <<>>
  ELSE IF s[Len(s)] = "/" THEN StripTrailingSlashes(SubSeq(s, 1, Len(s) - 1)) ELSE s

Lower(c) ==
  CASE c = "H" -> "h"
    [] c = "T" -> "t"
    [] c = "P" -> "p"
    [] c = "S" -> "s"
    [] OTHER -> c

LowerStr(s) == [i \in 1..Len(s) |-> Lower(s[i])]

\* /^https?:\/\//i
IsHttpUrl(s) ==
  \/ startsWith(LowerStr(s), <<"h", "t", "t", "p", ":", "/", "/">>)
  \/ startsWith(LowerStr(s), <<"h", "t", "t", "p", "s", ":", "/", "/">>)

DigitChars == <<"0", "1", "2", "3", "4", "5", "6", "7", "8", "9">>
IsDigit(c) == \E d \in 1..10 : DigitChars[d] = c
DigitVal(c) == (CHOOSE d \in 1..10 : DigitChars[d] = c) - 1

RECURSIVE NatToStr(_)
NatToStr(n) ==
  IF n < 10 THEN <<DigitChars[n + 1]>>
  ELSE NatToStr(n \div 10) \o <<DigitChars[(n % 10) + 1]>>

\* String(n) for the finite number n = h/2
NumToStr(h) ==
  LET a == IF h < 0 THEN -h ELSE h
      body == NatToStr(a \div 2) \o (IF a % 2 = 1 THEN <<".", "5">> ELSE <<>>)
  IN  IF h < 0 THEN <<"-">> \o body ELSE body

\* String(value)
JsString(v) ==
  CASE v.t = "str" -> v.s
    [] v.t = "num" -> NumToStr(v.h)
    [] v.t = "nan" -> <<"N", "a", "N">>
    [] v.t = "inf" -> <<"I", "n", "f", "i", "n", "i", "t", "y">>
    [] v.t = "-inf" -> <<"-", "I", "n", "f", "i", "n", "i", "t", "y">>
    [] v.t = "null" -> <<"n", "u", "l", "l">>
    [] OTHER -> <<"u", "n", "d", "e", "f", "i", "n", "e", "d">>

RECURSIVE DigitsToNat(_, _)
DigitsToNat(s, acc) ==
  IF s = <<>> THEN acc ELSE DigitsToNat(Tail(s), 10 * acc + DigitVal(Head(s)))

AllDigits(s) == s # <<>> /\ \A i \in 1..Len(s) : IsDigit(s[i])

\* Number(string) on strings over digits, "-", " " and letters that start no
\* numeric literal: surrounding white space is ignored, "" is 0, an optional
\* minus sign followed by decimal digits is that integer, anything else NaN.
StrToNumber(s) ==
  LET r == Trim(s) IN
  IF r = <<>> THEN Num(0)
  ELSE IF AllDigits(r) THEN Num(2 * DigitsToNat(r, 0))
  ELSE IF Head(r) = "-" /\ AllDigits(Tail(r)) THEN Num(-2 * DigitsToNat(Tail(r), 0))
  ELSE NaNValue

\* Number(value): the result is a "num", "nan", "inf" or "-inf" value
Number(v) ==
  CASE v.t = "absent" -> NaNValue
    [] v.t = "null" -> Num(0)
    [] v.t = "str" -> StrToNumber(v.s)
    [] OTHER -> v

isFinite(n) == n.t = "num"

\* truthiness of a value, as used by `a || b` and `cond ? x : y`
Truthy(v) ==
  CASE v.t = "str" -> v.s # <<>>
    [] v.t = "num" -> v.h # 0
    [] v.t \in {"inf", "-inf"} -> TRUE
    [] OTHER -> FALSE

Max(a, b) == IF a >= b THEN a ELSE b
Min(a, b) == IF a <= b THEN a ELSE b

(***************************************************************************)
(* Pure helpers of build.js                                                *)
(***************************************************************************)
toText(v) == IF v.t \in {"absent", "null"} THEN <<>> ELSE Trim(JsString(v))

\* html.split(token).join(value): the non-overlapping occurrences of token,
\* found left to right, are replaced; the inserted value is not looked at again
\* within this pass.
RECURSIVE SplitJoin(_, _, _)
SplitJoin(html, token, value) ==
  IF Len(html) < Len(token) THEN html
  ELSE IF startsWith(html, token)
       THEN value \o SplitJoin(SubSeq(html, Len(token) + 1, Len(html)), token, value)
       ELSE <<Head(html)>> \o SplitJoin(Tail(html), token, value)

\* text.replace(/c/g, entity) for a one-character pattern c
ReplaceAll(text, c, entity) == SplitJoin(text, <<c>>, entity)

\* escapeHtml with the ampersand replaced last
escapeHtmlAmpLast(v) ==
  LET lt == ReplaceAll(toText(v), "<", <<"&", "l", "t", ";">>)
      gt == ReplaceAll(lt, ">", <<"&", "g", "t", ";">>)
      quot == ReplaceAll(gt, "\"", <<"&", "q", "u", "o", "t", ";">>)
      apos == ReplaceAll(quot, "'", <<"&", "#", "3", "9", ";">>)
  IN  ReplaceAll(apos, "&", <<"&", "a", "m", "p", ";">>)

escapeHtml(v) ==
  LET amp == ReplaceAll(toText(v), "&", <<"&", "a", "m", "p", ";">>)
      lt == ReplaceAll(amp, "<", <<"&", "l", "t", ";">>)
      gt == ReplaceAll(lt, ">", <<"&", "g", "t", ";">>)
      quot == ReplaceAll(gt, "\"", <<"&", "q", "u", "o", "t", ";">>)
  IN  ReplaceAll(quot, "'", <<"&", "#", "3", "9", ";">>)

escapeAttr(v) == escapeHtml(v)

TokenOf(key) == <<"{", "{">> \o key \o <<"}", "}">>

\* replacements is the sequence Object.entries yields: <<key, value>> pairs in
\* insertion order.
RECURSIVE renderTemplate(_, _)
renderTemplate(template, replacements) ==
  IF replacements = <<>> THEN template
  ELSE renderTemplate(SplitJoin(template, TokenOf(Head(replacements)[1]), Head(replacements)[2]),
                      Tail(replacements))

normalizeBasePath(basePath) ==
  LET raw == toText(basePath)
      withLeadingSlash == IF startsWith(raw, <<"/">>) THEN raw ELSE <<"/">> \o raw
  IN  IF raw = <<>> \/ raw = <<"/">> THEN <<>> ELSE StripTrailingSlashes(withLeadingSlash)

withBasePath(basePath, urlPath) ==
  IF IsHttpUrl(urlPath) THEN urlPath
  ELSE basePath \o (IF startsWith(urlPath, <<"/">>) THEN urlPath ELSE <<"/">> \o urlPath)

toAbsoluteUrl(canonicalBase, urlPath) ==
  IF IsHttpUrl(urlPath) THEN urlPath
  ELSE StripTrailingSlashes(canonicalBase) \o urlPath

\* clampInt with the upper clamp Math.min(max, ...) left out
clampIntNoUpperClamp(value, min, max, fallback) ==
  LET number == Number(value) IN
  IF ~isFinite(number) THEN fallback
  ELSE Max(min, number.h \div 2)

clampInt(value, min, max, fallback) ==
  LET number == Number(value) IN
  IF ~isFinite(number) THEN fallback
  ELSE Max(min, Min(max, number.h \div 2))

\* the attributes an external link gets, as one piece of fixed markup
ExternalAttrs == <<" target=\"_blank\" rel=\"noreferrer noopener\"">>

maybeExternalAttrs(url) == IF IsHttpUrl(url) THEN ExternalAttrs ELSE <<>>

buildCtaLink(cta, className) ==
  LET url == escapeAttr(Str(toText(cta.url)))
      label == escapeHtml(Str(toText(cta.label)))
  IN  [className |-> className, href |-> url, attrs |-> maybeExternalAttrs(url), label |-> label]

\* the one-character string U+2026 (horizontal ellipsis)
Ellipsis == "U+2026"

truncate(text, limit) ==
  LET raw == toText(text) IN
  IF Len(raw) <= limit THEN raw
  ELSE SubSeq(raw, 1, Max(0, limit - 1)) \o <<Ellipsis>>

(***************************************************************************)
(* The content document                                                    *)
(*                                                                         *)
(* A list-valued field is [t, len] or [t, items] with t = "arr" for an     *)
(* array, "absent" for undefined and "other" for any other value.  An      *)
(* element that must be an object carries obj = FALSE when it is null.     *)
(***************************************************************************)
Arr(n) == [t |-> "arr", len |-> n]
NoList == [t |-> "absent", len |-> 0]
NotAList == [t |-> "other", len |-> 0]
Items(xs) == [t |-> "arr", items |-> xs]
NoItems == [t |-> "absent", items |-> <<>>]
NotItems == [t |-> "other", items |-> <<>>]

\* An error thrown by validateContent.  The message is kept in parts: the
\* field path ptr[idx].field[sub].subfield (idx and sub are -1 when the path
\* has no index, field and subfield are "" when absent) and the text around it.
Err(ptr, idx, field, sub, subfield, text) ==
  [ptr |-> ptr, idx |-> idx, field |-> field, sub |-> sub, subfield |-> subfield,
   text |-> text, arg |-> <<>>]
NoError == Err("ok", -1, "", -1, "", "")
\* `Duplicate slug found: ${project.slug}`
DuplicateSlugError(slug) ==
  [ptr |-> "", idx |-> -1, field |-> "", sub |-> -1, subfield |-> "",
   text |-> "Duplicate slug found: ", arg |-> JsString(slug)]
\* reading a property of null
TypeError == Err("", -1, "", -1, "", "TypeError")

\* checks is a sequence of <<condition, error>>: the error of the first
\* assertion whose condition is false is thrown.
FirstFailure(checks) ==
  IF \E i \in 1..Len(checks) : ~checks[i][1]
  THEN checks[CHOOSE i \in 1..Len(checks) :
                /\ ~checks[i][1]
                /\ \A j \in 1..(i - 1) : checks[j][1]][2]
  ELSE NoError

IsLowerAlnum(c) ==
  \/ IsDigit(c)
  \/ c \in {"a", "b", "c", "d", "e", "f", "g", "h", "i", "j", "k", "l", "m",
            "n", "o", "p", "q", "r", "s", "t", "u", "v", "w", "x", "y", "z"}

\* /^[a-z0-9]+(?:-[a-z0-9]+)*$/
SlugPattern(s) ==
  /\ s # <<>>
  /\ \A i \in 1..Len(s) : IsLowerAlnum(s[i]) \/ s[i] = "-"
  /\ s[1] # "-"
  /\ s[Len(s)] # "-"
  /\ \A i \in 1..(Len(s) - 1) : ~(s[i] = "-" /\ s[i + 1] = "-")

SiteFields == <<"title", "description", "canonicalBase", "ogImageDefault", "profileImage">>
ProjectFields == <<"slug", "title", "summary", "section", "serviceIcon", "heroImage">>

includes(items, v) == \E i \in 1..Len(items) : items[i] = v

CtaChecks(project, index) ==
  LET cs == project.ctas.items IN
  [j \in 1..(2 * Len(cs)) |->
     LET c == cs[(j + 1) \div 2] IN
     IF ~c.obj THEN <<FALSE, TypeError>>
     ELSE IF j % 2 = 1
          THEN <<toText(c.label) # <<>>,
                 Err("projects", index, "ctas", ((j + 1) \div 2) - 1, "label", " is required.")>>
          ELSE <<toText(c.url) # <<>>,
                 Err("projects", index, "ctas", ((j + 1) \div 2) - 1, "url", " is required.")>>]

\* the body of content.projects.forEach for one project; index is 0-based
validateProject(site, project, index, slugSet, orderSet) ==
  LET P(field, text) == Err("projects", index, field, -1, "", text) IN
  FirstFailure(
    << <<project.obj, Err("projects", index, "", -1, "", " must be an object.")>> >>
    \o [f \in 1..6 |-> <<toText(project[ProjectFields[f]]) # <<>>,
                         P(ProjectFields[f], " is required.")>>]
    \o << <<includes(site.indexSections.items, project.section),
            P("section", " must be one of site.indexSections.")>>,
          <<SlugPattern(JsString(project.slug)),
            P("slug", " must use lowercase letters, numbers, and hyphens.")>>,
          <<project.slug \notin slugSet, DuplicateSlugError(project.slug)>>,
          <<isFinite(Number(project.order)), P("order", " must be a number.")>>,
          <<Number(project.order).h \notin orderSet, P("order", " must be unique.")>>,
          <<project.tags.t = "arr", P("tags", " must be an array.")>>,
          <<project.tags.len > 0, P("tags", " must have at least one item.")>>,
          <<project.ctas.t = "arr", P("ctas", " must be an array.")>>,
          <<Len(project.ctas.items) <= 2, P("ctas", " supports up to 2 items.")>> >>
    \o CtaChecks(project, index)
    \o << <<project.facts.t = "arr", P("facts", " must be an array.")>>,
          <<project.facts.len >= 2 /\ project.facts.len <= 4,
            P("facts", " must contain 2 to 4 items.")>>,
          <<project.screens.t = "arr", P("screens", " must be an array.")>>,
          <<Len(project.screens.items) >= 1, P("screens", " must contain at least one item.")>>,
          <<project.contrib.t = "arr", P("contrib", " must be an array.")>>,
          <<project.contrib.len >= 5 /\ project.contrib.len <= 8,
            P("contrib", " should contain 5 to 8 items.")>>,
          <<project.designNotes.t \in {"absent", "arr"},
            P("designNotes", " must be an array when provided.")>>,
          <<project.links.t \in {"absent", "arr"},
            P("links", " must be an array when provided.")>> >>)

\* validateProjects with slugSet.add(project.slug) left out
RECURSIVE validateProjectsNoSlugAdd(_, _, _, _, _)
validateProjectsNoSlugAdd(site, items, index, slugSet, orderSet) ==
  IF index >= Len(items) THEN NoError
  ELSE LET project == items[index + 1]
           e == validateProject(site, project, index, slugSet, orderSet)
       IN  IF e # NoError THEN e
           ELSE validateProjectsNoSlugAdd(site, items, index + 1, slugSet,
                                          orderSet \cup {Number(project.order).h})

RECURSIVE validateProjects(_, _, _, _, _)
validateProjects(site, items, index, slugSet, orderSet) ==
  IF index >= Len(items) THEN NoError
  ELSE LET project == items[index + 1]
           e == validateProject(site, project, index, slugSet, orderSet)
       IN  IF e # NoError THEN e
           ELSE validateProjects(site, items, index + 1,
                                 slugSet \cup {project.slug},
                                 orderSet \cup {Number(project.order).h})

validateContent(content) ==
  LET site == content.site
      siteErr ==
        FirstFailure(
          << <<content.obj, Err("", -1, "content.json", -1, "", " must contain an object.")>>,
             <<site.obj, Err("", -1, "site", -1, "", " is required.")>> >>
          \o [f \in 1..5 |-> <<toText(site[SiteFields[f]]) # <<>>,
                               Err("site", -1, SiteFields[f], -1, "", " is required.")>>]
          \o << <<site.indexSections.t = "arr",
                  Err("site", -1, "indexSections", -1, "", " must be an array.")>>,
                <<Len(site.indexSections.items) > 0,
                  Err("site", -1, "indexSections", -1, "", " must contain at least one section.")>> >>
          \o [s \in 1..Len(site.indexSections.items) |->
                <<toText(site.indexSections.items[s]) # <<>>,
                  Err("site", -1, "indexSections", s - 1, "", " must not be empty.")>>]
          \o << <<IsHttpUrl(JsString(site.canonicalBase)),
                  Err("site", -1, "canonicalBase", -1, "", " must start with http:// or https://.")>>,
                <<content.projects.t = "arr", Err("", -1, "projects", -1, "", " must be an array.")>>,
                <<Len(content.projects.items) > 0,
                  Err("", -1, "projects", -1, "", " must contain at least one item.")>> >>)
  IN  IF siteErr # NoError THEN siteErr
      ELSE validateProjects(site, content.projects.items, 0, {}, {})

(***************************************************************************)
(* Layout, fragments and pages                                             *)
(*                                                                         *)
(* A rendered fragment or page is kept as the record of the values the     *)
(* source interpolates into its markup; the fixed markup around them is    *)
(* not represented.                                                        *)
(***************************************************************************)
NoHints ==
  [t |-> "absent", colSpan |-> Absent, rowSpan |-> Absent, colSpanTablet |-> Absent,
   rowSpanTablet |-> Absent, colSpanMobile |-> Absent, rowSpanMobile |-> Absent]

\* `/projects/${project.slug}/`
ProjectUrl(project) ==
  <<"/", "p", "r", "o", "j", "e", "c", "t", "s", "/">> \o JsString(project.slug) \o <<"/">>

buildProjectCard(project, context) ==
  LET bento == IF project.bento.t = "obj" THEN project.bento ELSE NoHints
      colDesktop == clampInt(bento.colSpan, 1, 12, IF project.featured THEN 6 ELSE 4)
      rowDesktop == clampInt(bento.rowSpan, 1, 6, IF project.featured THEN 2 ELSE 1)
      colTablet == clampInt(bento.colSpanTablet, 1, 8, Min(colDesktop, 4))
      rowTablet == clampInt(bento.rowSpanTablet, 1, 6, rowDesktop)
      colMobile == clampInt(bento.colSpanMobile, 1, 4, 4)
      rowMobile == clampInt(bento.rowSpanMobile, 1, 6, IF rowDesktop > 1 THEN 2 ELSE 1)
  IN  [href |-> escapeAttr(Str(withBasePath(context.basePath, ProjectUrl(project)))),
       col |-> colDesktop, row |-> rowDesktop,
       colTablet |-> colTablet, rowTablet |-> rowTablet,
       colMobile |-> colMobile, rowMobile |-> rowMobile,
       serviceIcon |-> escapeAttr(Str(withBasePath(context.basePath, toText(project.serviceIcon)))),
       heroImage |-> escapeAttr(Str(withBasePath(context.basePath, toText(project.heroImage)))),
       title |-> escapeHtml(project.title),
       summary |-> escapeHtml(project.summary)]

\* the keys of sectionMap in insertion order: the configured names first (a
\* Map keeps one entry per key), then any project section not among them
RECURSIVE AddKeys(_, _)
AddKeys(keys, names) ==
  IF names = <<>> THEN keys
  ELSE AddKeys(IF includes(keys, Head(names)) THEN keys ELSE Append(keys, Head(names)),
               Tail(names))

\* buildProjectSections without the filter that drops the empty sections
buildProjectSectionsKeepEmpty(projects, context, sectionOrder) ==
  LET keys == AddKeys(AddKeys(<<>>, sectionOrder),
                      [i \in 1..Len(projects) |-> toText(projects[i].section)])
      ItemsOf(name) == SelectSeq(projects, LAMBDA p : toText(p.section) = name)
  IN  [i \in 1..Len(keys) |->
         [sectionIndex |-> i,
          name |-> escapeHtml(Str(keys[i])),
          cards |-> [j \in 1..Len(ItemsOf(keys[i])) |->
                       buildProjectCard(ItemsOf(keys[i])[j], context)]]]

buildProjectSections(projects, context, sectionOrder) ==
  LET keys == AddKeys(AddKeys(<<>>, sectionOrder),
                      [i \in 1..Len(projects) |-> toText(projects[i].section)])
      ItemsOf(name) == SelectSeq(projects, LAMBDA p : toText(p.section) = name)
      entries == [i \in 1..Len(keys) |->
                    [sectionIndex |-> i,
                     name |-> escapeHtml(Str(keys[i])),
                     cards |-> [j \in 1..Len(ItemsOf(keys[i])) |->
                                  buildProjectCard(ItemsOf(keys[i])[j], context)]]]
  IN  SelectSeq(entries, LAMBDA e : e.cards # <<>>)

NoLink == [present |-> FALSE, href |-> <<>>, label |-> <<>>]
LinkTo(project, context) ==
  [present |-> TRUE,
   href |-> escapeAttr(Str(withBasePath(context.basePath, ProjectUrl(project)))),
   label |-> escapeHtml(project.title)]

\* index is 0-based as in the source; projects[index - 1] and projects[index + 1]
\* of the source are projects[index] and projects[index + 2] of the 1-based
\* sequence, undefined outside it
buildPagination(projects, index, context) ==
  [prev |-> IF index - 1 >= 0 THEN LinkTo(projects[index], context) ELSE NoLink,
   back |-> escapeAttr(Str(withBasePath(context.basePath, <<"/">>))),
   next |-> IF index + 1 < Len(projects) THEN LinkTo(projects[index + 2], context) ELSE NoLink]

\* withBasePath(basePath, x) calls x.startsWith: it throws unless x is a string
PageThrows(project) ==
  \/ project.heroImage.t # "str"
  \/ \E i \in 1..Len(project.screens.items) :
        ~project.screens.items[i].obj \/ project.screens.items[i].src.t # "str"

buildProjectPage(project, index, projects, context) ==
  [kind |-> "project",
   canonical |-> escapeAttr(Str(toAbsoluteUrl(context.canonicalBase,
                                              withBasePath(context.basePath, ProjectUrl(project))))),
   title |-> escapeHtml(project.title),
   summary |-> escapeHtml(project.summary),
   sections |-> <<>>,
   pagination |-> buildPagination(projects, index, context)]

\* [...content.projects].sort((a, b) => Number(a.order) - Number(b.order)):
\* a stable sort, here by insertion
RECURSIVE InsertByOrder(_, _)
InsertByOrder(sorted, p) ==
  IF sorted = <<>> THEN <<p>>
  ELSE IF Number(sorted[Len(sorted)].order).h - Number(p.order).h <= 0
       THEN Append(sorted, p)
       ELSE Append(InsertByOrder(SubSeq(sorted, 1, Len(sorted) - 1), p), sorted[Len(sorted)])

\* SortByOrder with the sort left out: document order
SortByOrderUnsorted(items) == items

RECURSIVE SortByOrder(_)
SortByOrder(items) ==
  IF items = <<>> THEN <<>>
  ELSE InsertByOrder(SortByOrder(SubSeq(items, 1, Len(items) - 1)), items[Len(items)])

\* lines 491-501
BuildContext(site) ==
  [basePath |-> normalizeBasePath(IF Truthy(site.basePath) THEN site.basePath ELSE Str(<<>>)),
   canonicalBase |-> StripTrailingSlashes(toText(site.canonicalBase)),
   siteTitle |-> toText(site.title)]

IndexThrows(site) == site.ogImageDefault.t # "str" \/ site.profileImage.t # "str"

BuildIndexHtml(site, projects, context) ==
  [kind |-> "index",
   canonical |-> escapeAttr(Str(toAbsoluteUrl(context.canonicalBase,
                                              withBasePath(context.basePath, <<"/">>)))),
   title |-> escapeHtml(Str(context.siteTitle)),
   summary |-> <<>>,
   sections |-> buildProjectSections(projects, context,
                  [i \in 1..Len(site.indexSections.items) |-> toText(site.indexSections.items[i])]),
   pagination |-> [prev |-> NoLink, back |-> <<>>, next |-> NoLink]]

(***************************************************************************)
(* Content documents the build is run on                                   *)
(***************************************************************************)
SlugName(i) == <<"p">> \o NatToStr(i)
SectionA == Str(<<"A">>)
SectionB == Str(<<"B">>)
SectionC == Str(<<"C">>)
\* a section name written with a trailing space
SectionBsp == Str(<<"B", " ">>)
Screen(src) == [obj |-> TRUE, src |-> src]
Cta(label, url) == [obj |-> TRUE, label |-> label, url |-> url]
GoodCta == Cta(Str(<<"g", "o">>), Str(<<"/", "g">>))

BaseProject(i, slug, order) ==
  [obj |-> TRUE, slug |-> slug, title |-> Str(<<"T", "<">> \o NatToStr(i)),
   summary |-> Str(<<"s", "&">>),
   section |-> IF i % 2 = 1 THEN SectionA ELSE SectionB,
   serviceIcon |-> Str(<<"/", "i">>), heroImage |-> Str(<<"/", "h">>),
   order |-> order, tags |-> Arr(1), ctas |-> Items(<<>>), facts |-> Arr(2),
   screens |-> Items(<<Screen(Str(<<"/", "s">>))>>), contrib |-> Arr(5),
   designNotes |-> NoList, links |-> NoList, bento |-> NoHints, featured |-> (i = 1)]

BaseSite ==
  [obj |-> TRUE, title |-> Str(<<"S">>), description |-> Str(<<"d">>),
   canonicalBase |-> Str(<<"h", "t", "t", "p", ":", "/", "/", "h", "/">>),
   ogImageDefault |-> Str(<<"/", "o">>), profileImage |-> Str(<<"/", "m">>),
   indexSections |-> Items(<<SectionA, SectionB>>), basePath |-> Absent]

BaseContent(items) == [obj |-> TRUE, site |-> BaseSite, projects |-> Items(items)]

\* what is known about a document by construction: kind "valid" (satisfies
\* every rule of the validator), the one violation introduced into a valid
\* document (its kind, and the field path ptr[idx].field it concerns, idx
\* ranging over the projects involved), or "free" (nothing recorded)
Tag(kind, ptr, idxs, field) == [kind |-> kind, ptr |-> ptr, idxs |-> idxs, field |-> field]
Case(doc, tag) == [doc |-> doc, tag |-> tag]

OrderPool == {Int2(n) : n \in 1..MaxProjects} \cup {Str(<<"2">>)}
SlugPool == {Str(SlugName(1)), Str(SlugName(2)), Str(<<"7">>), Int2(7)}

Injective(f) == \A i, j \in DOMAIN f : i # j => f[i] # f[j]

\* every assignment of orders (duplicates and numeric strings included)
OrderCases ==
  { Case(BaseContent([i \in 1..n |-> BaseProject(i, Str(SlugName(i)), o[i])]),
         IF Injective([i \in 1..n |-> Number(o[i]).h])
         THEN Tag("valid", "", {}, "") ELSE Tag("free", "", {}, ""))
    : n \in 1..MaxProjects, o \in [1..MaxProjects -> OrderPool] }

\* every assignment of slugs (duplicates and a number-typed slug included),
\* listed in descending order, under a base path
SlugCases ==
  { Case([BaseContent([i \in 1..n |-> BaseProject(i, g[i], Int2(n + 1 - i))])
            EXCEPT !.site.basePath = Str(<<"s", "/">>)],
         Tag("free", "", {}, ""))
    : n \in 1..MaxProjects, g \in [1..MaxProjects -> SlugPool] }

\* the valid two-project document violations are introduced into
TwoProjects ==
  BaseContent(<<BaseProject(1, Str(SlugName(1)), Int2(2)),
                BaseProject(2, Str(SlugName(2)), Int2(1))>>)

WithProject(i, q) == [TwoProjects EXCEPT !.projects.items[i] = q]
WithSite(site) == [TwoProjects EXCEPT !.site = site]

ProjectCases(i) ==
  LET p == TwoProjects.projects.items[i]
      other == TwoProjects.projects.items[3 - i]
      T(kind, field) == Tag(kind, "projects", {i - 1}, field)
      D(kind, field) == Tag(kind, "projects", {0, 1}, field)
  IN
  { Case(WithProject(i, [p EXCEPT ![ProjectFields[f]] = v]), T("emptyRequired", ProjectFields[f]))
      : f \in 1..6, v \in {Str(<<" ">>), Absent} }
  \cup
  { Case(WithProject(i, [p EXCEPT !.slug = v]), T("malformedSlug", "slug"))
      : v \in {Str(<<"A">>), Str(<<"a", "-">>), Str(<<"-", "a">>), Str(<<"a", "-", "-", "b">>),
               Str(<<" ">> \o SlugName(9)), Num(3)} }
  \cup
  { Case(WithProject(i, [p EXCEPT !.slug = other.slug]), D("duplicateSlug", "slug")) }
  \cup
  { Case(WithProject(i, [p EXCEPT !.order = v]), D("duplicateOrder", "order"))
      : v \in {other.order, Str(NumToStr(other.order.h))} }
  \cup
  { Case(WithProject(i, [p EXCEPT !.facts = v]), T("lengthRange", "facts")) : v \in {Arr(1), Arr(5)} }
  \cup
  { Case(WithProject(i, [p EXCEPT !.contrib = v]), T("lengthRange", "contrib")) : v \in {Arr(4), Arr(9)} }
  \cup
  { Case(WithProject(i, [p EXCEPT !.screens = Items(<<>>)]), T("lengthRange", "screens")),
    Case(WithProject(i, [p EXCEPT !.ctas = Items(<<GoodCta, GoodCta, GoodCta>>)]), T("lengthRange", "ctas")) }
  \cup
  { Case(WithProject(i, [p EXCEPT !.section = v]), T("unknownSection", "section"))
      : v \in {Str(<<"Z">>), Str(<<"A", " ">>)} }
  \cup
  { Case(WithProject(i, q), Tag("free", "", {}, ""))
      : q \in { [p EXCEPT !.order = Absent], [p EXCEPT !.order = Str(<<"z">>)],
                [p EXCEPT !.tags = NotAList], [p EXCEPT !.tags = Arr(0)],
                [p EXCEPT !.ctas = NotItems],
                [p EXCEPT !.ctas = Items(<<Cta(Str(<<" ">>), Str(<<"/", "g">>))>>)],
                [p EXCEPT !.ctas = Items(<<GoodCta, Cta(Str(<<"g">>), Absent)>>)],
                [p EXCEPT !.ctas = Items(<<[GoodCta EXCEPT !.obj = FALSE]>>)],
                [p EXCEPT !.facts = NotAList], [p EXCEPT !.screens = NotItems],
                [p EXCEPT !.contrib = NotAList],
                [p EXCEPT !.designNotes = NotAList], [p EXCEPT !.links = NotAList],
                [p EXCEPT !.obj = FALSE],
                [p EXCEPT !.heroImage = Int2(5)],
                [p EXCEPT !.screens = Items(<<Screen(Str(<<"/", "s">>)), Screen(Absent)>>)],
                [p EXCEPT !.screens = Items(<<[Screen(Absent) EXCEPT !.obj = FALSE]>>)],
                [p EXCEPT !.slug = Int2(7)] } }
  \cup
  { Case(WithProject(i, q), Tag("valid", "", {}, ""))
      : q \in { [p EXCEPT !.ctas = Items(<<GoodCta, GoodCta>>)],
                [p EXCEPT !.facts = Arr(4)], [p EXCEPT !.contrib = Arr(8)],
                [p EXCEPT !.designNotes = Arr(1)], [p EXCEPT !.links = Arr(0)],
                [p EXCEPT !.section = SectionA], [p EXCEPT !.section = SectionB],
                [p EXCEPT !.order = Int2(-3)] } }

SiteCases ==
  { Case(WithSite([BaseSite EXCEPT ![SiteFields[f]] = v]), Tag("emptyRequired", "site", {-1}, SiteFields[f]))
      : f \in 1..5, v \in {Str(<<" ">>), Null} }
  \cup
  { Case(WithSite(q), Tag("free", "", {}, ""))
      : q \in { [BaseSite EXCEPT !.canonicalBase = Str(<<"f", "t", "p", ":", "/", "/", "h">>)],
                [BaseSite EXCEPT !.indexSections = NotItems],
                [BaseSite EXCEPT !.indexSections = Items(<<>>)],
                [BaseSite EXCEPT !.indexSections = Items(<<SectionA, SectionB, Str(<<" ">>)>>)],
                [BaseSite EXCEPT !.obj = FALSE],
                [BaseSite EXCEPT !.ogImageDefault = Int2(5)],
                [BaseSite EXCEPT !.profileImage = Int2(5)] } }
  \cup
  { Case(WithSite([BaseSite EXCEPT !.basePath = v]), Tag("valid", "", {}, ""))
      : v \in {Str(<<"/", "s", "/">>), Str(<<"s">>), Str(<<"/">>), Str(<<>>), Null,
               Str(<<"/", "/", "s">>)} }
  \cup
  { Case(WithSite([BaseSite EXCEPT !.canonicalBase = Str(<<"H", "T", "T", "P", "S", ":", "/", "/", "h">>)]),
         Tag("valid", "", {}, "")),
    Case([TwoProjects EXCEPT !.obj = FALSE], Tag("free", "", {}, "")),
    Case([TwoProjects EXCEPT !.projects = NotItems], Tag("free", "", {}, "")),
    Case([TwoProjects EXCEPT !.projects = Items(<<>>)], Tag("free", "", {}, "")) }

SectionPool == {SectionA, SectionBsp, SectionC}
SectionLists ==
  { <<SectionA, SectionBsp, SectionC>>, <<SectionC, SectionA, SectionBsp>>,
    <<SectionBsp, SectionA, SectionBsp>>, <<SectionA, SectionB, SectionC>> }

\* every assignment of sections to projects listed in descending order, under
\* several configured section lists (one with a repeated name, one that lacks
\* the name as the projects write it)
SectionCases ==
  { Case([BaseContent([i \in 1..n |->
                         [BaseProject(i, Str(SlugName(i)), Int2(n + 1 - i)) EXCEPT !.section = c[i]]])
            EXCEPT !.site.indexSections = Items(l)],
         Tag("free", "", {}, ""))
    : n \in 1..MaxProjects, c \in [1..MaxProjects -> SectionPool], l \in SectionLists }

DocCases == SectionCases \cup OrderCases \cup SlugCases \cup ProjectCases(1) \cup ProjectCases(2) \cup SiteCases

(***************************************************************************)
(* State                                                                   *)
(***************************************************************************)
VARIABLES
  pc,         \* position in buildSite / in the call of a pure function
  content,    \* the document content.json holds
  injected,   \* what is known about content by construction (see Tag)
  fs,         \* the output tree: index.html and the projects directory
  fs0,        \* the output tree before the run
  verr,       \* the error validateContent threw, NoError if none
  projects,   \* buildSite's sorted copy of content.projects
  context,    \* buildSite's context
  indexHtml,  \* the rendered index page
  k,          \* index of the next project of the page loop
  produced,   \* directory names of the page files written so far, in order
  failedAt,   \* the step that threw, "" if none
  stdout,     \* lines printed by console.log / console.error
  exitCode,   \* process.exitCode
  args,       \* arguments of the pure function under study
  ret,        \* its result
  run,        \* number of the current run of the build script
  browser     \* the page the theme-toggle script runs in, and its storage

vars == <<pc, content, injected, fs, fs0, verr, projects, context, indexHtml, k,
          produced, failedAt, stdout, exitCode, args, ret, run, browser>>

NoPagination == [prev |-> NoLink, back |-> <<>>, next |-> NoLink]
NoFile ==
  [kind |-> "none", canonical |-> <<>>, title |-> <<>>, summary |-> <<>>,
   sections |-> <<>>, pagination |-> NoPagination]
\* a file left by an earlier build
StaleFile == [NoFile EXCEPT !.kind = "stale"]
\* what a failed writeFileSync may leave behind
PartialFile == [NoFile EXCEPT !.kind = "partial"]

StaleNames == [i \in 1..MaxStale |-> IF i = 1 THEN SlugName(1) ELSE <<"o", "l", "d">> \o NatToStr(i)]

\* a subdirectory of projects/: its index.html, NoFile if it has none
DirsOf(names) == [n \in names |-> StaleFile]

PriorTrees ==
  { [index |-> f, projectsDir |-> TRUE, entries |-> DirsOf({StaleNames[i] : i \in I})]
      : f \in {NoFile, StaleFile}, I \in SUBSET (1..MaxStale) }
  \cup
  { [index |-> f, projectsDir |-> FALSE, entries |-> DirsOf({})] : f \in {NoFile, StaleFile} }

NoContext == [basePath |-> <<>>, canonicalBase |-> <<>>, siteTitle |-> <<>>]

Line(kind, n, path) == [kind |-> kind, n |-> n, path |-> path]

\* the build variables at program start
BuildStart ==
  /\ verr = NoError
  /\ projects = <<>>
  /\ context = NoContext
  /\ indexHtml = NoFile
  /\ k = 0
  /\ produced = <<>>
  /\ failedAt = ""
  /\ stdout = <<>>
  /\ exitCode = 0

\* no page is open and nothing is stored.  loaded: the script has run on the
\* open page; dark: the root element carries data-theme="dark"; toggle: the
\* page has a [data-theme-toggle] element (the click listener is registered);
\* stored: the value under "portfolio-theme" ("null" when there is none);
\* readsOk, writesOk: no getItem resp. setItem has thrown so far; events: page
\* loads and clicks so far; last: the latest event; shown: dark before it
BrowserIdle ==
  [loaded |-> FALSE, dark |-> FALSE, toggle |-> FALSE, stored |-> "null",
   readsOk |-> TRUE, writesOk |-> TRUE, events |-> 0, last |-> "none", shown |-> FALSE]

Init ==
  /\ pc = "start"
  /\ run = 1
  /\ browser = BrowserIdle
  /\ \E c \in DocCases : content = c.doc /\ injected = c.tag
  /\ fs0 \in PriorTrees
  /\ fs = fs0
  /\ BuildStart
  /\ args = <<>>
  /\ ret = <<>>

(***************************************************************************)
(* buildSite, one action per step that can throw or touch the output tree  *)
(***************************************************************************)
Throw(step) ==
  /\ pc' = "threw"
  /\ failedAt' = step

\* readJson(CONTENT_PATH): the file may be missing or not JSON
LoadContent ==
  /\ pc = "start"
  /\ \E ok \in BOOLEAN :
       IF ok THEN pc' = "loaded" /\ UNCHANGED failedAt ELSE Throw("load")
  /\ UNCHANGED <<content, injected, fs, fs0, verr, projects, context, indexHtml, k,
                 produced, stdout, exitCode, args, ret, run, browser>>

\* Validate with the index file opened for writing before the document is
\* validated
ValidateAfterOpen ==
  /\ pc = "loaded"
  /\ verr' = validateContent(content)
  /\ fs' = [fs EXCEPT !.index = PartialFile]
  /\ IF verr' = NoError
     THEN /\ pc' = "validated"
          /\ context' = BuildContext(content.site)
          /\ projects' = SortByOrder(content.projects.items)
          /\ UNCHANGED failedAt
     ELSE /\ Throw("validate")
          /\ UNCHANGED <<context, projects>>
  /\ UNCHANGED <<content, injected, fs0, indexHtml, k, produced, stdout, exitCode, args, ret, run, browser>>

\* validateContent(content), then lines 491-504
Validate ==
  /\ pc = "loaded"
  /\ verr' = validateContent(content)
  /\ IF verr' = NoError
     THEN /\ pc' = "validated"
          /\ context' = BuildContext(content.site)
          /\ projects' = SortByOrder(content.projects.items)
          /\ UNCHANGED failedAt
     ELSE /\ Throw("validate")
          /\ UNCHANGED <<context, projects>>
  /\ UNCHANGED <<content, injected, fs, fs0, indexHtml, k, produced, stdout, exitCode, args, ret, run, browser>>

\* the two readTemplate calls
ReadTemplates ==
  /\ pc = "validated"
  /\ \E ok \in BOOLEAN :
       IF ok THEN pc' = "templates" /\ UNCHANGED failedAt ELSE Throw("templates")
  /\ UNCHANGED <<content, injected, fs, fs0, verr, projects, context, indexHtml, k,
                 produced, stdout, exitCode, args, ret, run, browser>>

\* RenderIndex with the index file truncated before its content is rendered
RenderIndexAfterOpen ==
  /\ pc = "templates"
  /\ fs' = [fs EXCEPT !.index = PartialFile]
  /\ IF IndexThrows(content.site)
     THEN Throw("renderIndex") /\ UNCHANGED indexHtml
     ELSE /\ pc' = "indexRendered"
          /\ indexHtml' = BuildIndexHtml(content.site, projects, context)
          /\ UNCHANGED failedAt
  /\ UNCHANGED <<content, injected, fs0, verr, projects, context, k, produced,
                 stdout, exitCode, args, ret, run, browser>>

\* lines 509-546
RenderIndex ==
  /\ pc = "templates"
  /\ IF IndexThrows(content.site)
     THEN Throw("renderIndex") /\ UNCHANGED indexHtml
     ELSE /\ pc' = "indexRendered"
          /\ indexHtml' = BuildIndexHtml(content.site, projects, context)
          /\ UNCHANGED failedAt
  /\ UNCHANGED <<content, injected, fs, fs0, verr, projects, context, k, produced,
                 stdout, exitCode, args, ret, run, browser>>

\* WriteIndex appending to an index file that exists instead of replacing it
WriteIndexAppend ==
  /\ pc = "indexRendered"
  /\ \/ /\ fs' = [fs EXCEPT !.index =
                     IF fs.index = NoFile THEN indexHtml
                     ELSE [indexHtml EXCEPT !.kind = "appended"]]
        /\ pc' = "indexWritten"
        /\ UNCHANGED failedAt
     \/ /\ \E f \in {fs.index, PartialFile} : fs' = [fs EXCEPT !.index = f]
        /\ Throw("writeIndex")
  /\ UNCHANGED <<content, injected, fs0, verr, projects, context, indexHtml, k, produced,
                 stdout, exitCode, args, ret, run, browser>>

\* fs.writeFileSync(OUTPUT_INDEX_PATH, indexHtml): a failing write leaves the
\* file as it was or truncated
WriteIndex ==
  /\ pc = "indexRendered"
  /\ \/ /\ fs' = [fs EXCEPT !.index = indexHtml]
        /\ pc' = "indexWritten"
        /\ UNCHANGED failedAt
     \/ /\ \E f \in {fs.index, PartialFile} : fs' = [fs EXCEPT !.index = f]
        /\ Throw("writeIndex")
  /\ UNCHANGED <<content, injected, fs0, verr, projects, context, indexHtml, k, produced,
                 stdout, exitCode, args, ret, run, browser>>

\* RemoveProjectsDir with the rmSync call left out
RemoveNothing ==
  /\ pc = "indexWritten"
  /\ pc' = "removed"
  /\ UNCHANGED <<content, injected, fs, fs0, verr, projects, context, indexHtml, k, produced,
                 failedAt, stdout, exitCode, args, ret, run, browser>>

\* fs.rmSync(OUTPUT_PROJECTS_DIR, {recursive, force}): a failing removal has
\* removed any part of the directory's content
RemoveProjectsDir ==
  /\ pc = "indexWritten"
  /\ \/ /\ fs' = [fs EXCEPT !.projectsDir = FALSE, !.entries = DirsOf({})]
        /\ pc' = "removed"
        /\ UNCHANGED failedAt
     \/ /\ fs.projectsDir
        /\ \E keep \in SUBSET (DOMAIN fs.entries) :
             fs' = [fs EXCEPT !.entries = [n \in keep |-> fs.entries[n]]]
        /\ Throw("rmProjects")
  /\ UNCHANGED <<content, injected, fs0, verr, projects, context, indexHtml, k, produced,
                 stdout, exitCode, args, ret, run, browser>>

\* fs.mkdirSync(OUTPUT_PROJECTS_DIR, {recursive})
MakeProjectsDir ==
  /\ pc = "removed"
  /\ \/ /\ fs' = [fs EXCEPT !.projectsDir = TRUE]
        /\ pc' = "pages"
        /\ k' = 0
        /\ UNCHANGED failedAt
     \/ /\ Throw("mkdirProjects")
        /\ UNCHANGED <<fs, k>>
  /\ UNCHANGED <<content, injected, fs0, verr, projects, context, indexHtml, produced,
                 stdout, exitCode, args, ret, run, browser>>

WithEntry(entries, name, file) ==
  [n \in (DOMAIN entries) \cup {name} |-> IF n = name THEN file ELSE entries[n]]

\* one iteration of projects.forEach (lines 553-558): render the page,
\* path.join (which throws unless the slug is a string), mkdirSync, writeFileSync
BuildPage ==
  /\ pc = "pages"
  /\ k < Len(projects)
  /\ LET project == projects[k + 1]
         pageHtml == buildProjectPage(project, k, projects, context)
         name == JsString(project.slug)
         before == IF name \in DOMAIN fs.entries THEN fs.entries[name] ELSE NoFile
     IN  IF PageThrows(project) \/ project.slug.t # "str"
         THEN Throw("page") /\ UNCHANGED <<fs, k, produced>>
         ELSE \/ /\ fs' = [fs EXCEPT !.entries = WithEntry(fs.entries, name, pageHtml)]
                 /\ k' = k + 1
                 /\ produced' = Append(produced, name)
                 /\ UNCHANGED <<pc, failedAt>>
              \/ /\ Throw("page")
                 /\ UNCHANGED <<fs, k, produced>>
              \/ /\ \E f \in {before, PartialFile} :
                      fs' = [fs EXCEPT !.entries = WithEntry(fs.entries, name, f)]
                 /\ Throw("page")
                 /\ UNCHANGED <<k, produced>>
  /\ UNCHANGED <<content, injected, fs0, verr, projects, context, indexHtml, stdout, exitCode,
                 args, ret, run, browser>>

\* path.relative(ROOT, OUTPUT_INDEX_PATH)
IndexFile == <<"i", "n", "d", "e", "x", ".", "h", "t", "m", "l">>
\* `projects/${project.slug}/index.html`
PagePath(project) ==
  <<"p", "r", "o", "j", "e", "c", "t", "s", "/">> \o JsString(project.slug) \o <<"/">> \o IndexFile

\* lines 560-564
Report ==
  /\ pc = "pages"
  /\ k = Len(projects)
  /\ stdout' = <<Line("count", Len(projects), <<>>), Line("path", 0, IndexFile)>>
               \o [i \in 1..Len(projects) |-> Line("path", 0, PagePath(projects[i]))]
  /\ pc' = "done"
  /\ UNCHANGED <<content, injected, fs, fs0, verr, projects, context, indexHtml, k, produced,
                 failedAt, exitCode, args, ret, run, browser>>

\* Catch without the assignment to process.exitCode
CatchNoExitCode ==
  /\ pc = "threw"
  /\ stdout' = Append(stdout, Line("error", 0, <<>>))
  /\ pc' = "failed"
  /\ UNCHANGED <<content, injected, fs, fs0, verr, projects, context, indexHtml, k, produced,
                 failedAt, exitCode, args, ret, run, browser>>

\* the catch block of lines 567-572
Catch ==
  /\ pc = "threw"
  /\ stdout' = Append(stdout, Line("error", 0, <<>>))
  /\ exitCode' = 1
  /\ pc' = "failed"
  /\ UNCHANGED <<content, injected, fs, fs0, verr, projects, context, indexHtml, k, produced,
                 failedAt, args, ret, run, browser>>

\* the script is run again (lines 567-568) on the same content document and
\* templates, over the output tree the run before left
Rebuild ==
  /\ pc = "done"
  /\ run < MaxRuns
  /\ run' = run + 1
  /\ pc' = "start"
  /\ fs0' = fs
  /\ verr' = NoError
  /\ projects' = <<>>
  /\ context' = NoContext
  /\ indexHtml' = NoFile
  /\ k' = 0
  /\ produced' = <<>>
  /\ failedAt' = ""
  /\ stdout' = <<>>
  /\ exitCode' = 0
  /\ UNCHANGED <<content, injected, fs, args, ret, browser>>

Next ==
  \/ LoadContent
  \/ Validate
  \/ ReadTemplates
  \/ RenderIndex
  \/ WriteIndex
  \/ RemoveProjectsDir
  \/ MakeProjectsDir
  \/ BuildPage
  \/ Report
  \/ Catch
  \/ Rebuild

Spec == Init /\ [][Next]_vars

(***************************************************************************)
(* Properties of buildSite                                                 *)
(***************************************************************************)
\* what escaping a text means: each of the five characters stands replaced by
\* its entity, every other character as it is
EscapeChar(c) ==
  CASE c = "&" -> <<"&", "a", "m", "p", ";">>
    [] c = "<" -> <<"&", "l", "t", ";">>
    [] c = ">" -> <<"&", "g", "t", ";">>
    [] c = "\"" -> <<"&", "q", "u", "o", "t", ";">>
    [] c = "'" -> <<"&", "#", "3", "9", ";">>
    [] OTHER -> <<c>>

RECURSIVE EscapeSeq(_)
EscapeSeq(s) == IF s = <<>> THEN <<>> ELSE EscapeChar(Head(s)) \o EscapeSeq(Tail(s))

ProjectItems == content.projects.items
Failed == pc \in {"threw", "failed"}
HomePath == context.basePath \o <<"/">>
HrefOf(project) == EscapeSeq(context.basePath \o ProjectUrl(project))
OrderOf(project) == Number(project.order).h

\* C1: when validateContent throws, the run ends with the output tree as it
\* was before the run: index.html not written, the projects directory neither
\* removed nor recreated, no project page written.
C1_ValidationFailureWritesNothing ==
  verr # NoError => Failed /\ failedAt = "validate" /\ fs = fs0 /\ produced = <<>>

C1_Witness ==
  /\ pc = "failed"
  /\ verr # NoError
  /\ fs0.index = StaleFile
  /\ fs0.entries # DirsOf({})

\* C2: after a successful run, whatever the output tree held before, it holds
\* index.html and exactly one projects/<slug>/index.html per project of the
\* document, each the page rendered in this run; no other directory remains
\* under projects/.
C2_OutputIsExactlyCurrentDocument ==
  pc = "done" =>
    /\ fs.index = indexHtml
    /\ indexHtml.kind = "index"
    /\ fs.projectsDir
    /\ DOMAIN fs.entries = {JsString(ProjectItems[i].slug) : i \in 1..Len(ProjectItems)}
    /\ \A i \in 1..Len(ProjectItems) :
         LET page == fs.entries[JsString(ProjectItems[i].slug)] IN
         page.kind = "project" /\ page.title = escapeHtml(ProjectItems[i].title)

C2_Witness ==
  /\ pc = "done"
  /\ \E n \in DOMAIN fs0.entries : n \notin DOMAIN fs.entries
  /\ \E n \in DOMAIN fs0.entries : n \in DOMAIN fs.entries
  /\ fs0.index = StaleFile

\* the project written to directory name (slugs of written pages are strings)
ProjectOfName(name) ==
  ProjectItems[CHOOSE i \in 1..Len(ProjectItems) : ProjectItems[i].slug = Str(name)]
Below(p) == {i \in 1..Len(ProjectItems) : OrderOf(ProjectItems[i]) < OrderOf(p)}
Above(p) == {i \in 1..Len(ProjectItems) : OrderOf(ProjectItems[i]) > OrderOf(p)}
Highest(I) == ProjectItems[CHOOSE i \in I : \A j \in I : OrderOf(ProjectItems[j]) <= OrderOf(ProjectItems[i])]
Lowest(I) == ProjectItems[CHOOSE i \in I : \A j \in I : OrderOf(ProjectItems[j]) >= OrderOf(ProjectItems[i])]

\* C3: for a document the validator accepts, the pages are written in strictly
\* ascending numeric order; the i-th page written belongs to the project with
\* i-1 projects of lower order, its previous link goes to the project of the
\* next lower order and its next link to the project of the next higher order
\* (none for the lowest resp. highest), and its Back link is the home path.
C3_AscendingOrderAndNeighbourLinks ==
  \A i \in 1..Len(produced) :
    LET p == ProjectOfName(produced[i])
        nav == fs.entries[produced[i]].pagination
    IN  /\ Cardinality(Below(p)) = i - 1
        /\ \A j \in 1..(i - 1) : OrderOf(ProjectOfName(produced[j])) < OrderOf(p)
        /\ nav.back = EscapeSeq(HomePath)
        /\ IF Below(p) = {} THEN ~nav.prev.present
           ELSE nav.prev.present /\ nav.prev.href = HrefOf(Highest(Below(p)))
        /\ IF Above(p) = {} THEN ~nav.next.present
           ELSE nav.next.present /\ nav.next.href = HrefOf(Lowest(Above(p)))

C3_Witness ==
  /\ pc = "done"
  /\ Len(produced) = 3
  /\ OrderOf(ProjectItems[1]) > OrderOf(ProjectItems[2])
  /\ fs.entries[produced[2]].pagination.prev.present
  /\ fs.entries[produced[2]].pagination.next.present
  /\ context.basePath # <<>>

HasDuplicateSlug ==
  \E i, j \in 1..Len(ProjectItems) : i # j /\ ProjectItems[i].slug = ProjectItems[j].slug

\* C4: a document in which two projects have the same slug is rejected by
\* validateContent before any file is written; hence the pages written in a
\* run go to pairwise distinct directories, and a successful run has written
\* as many distinct page files as the document has projects.
C4_DuplicateSlugRejected ==
  /\ (HasDuplicateSlug /\ pc \notin {"start", "loaded"} /\ failedAt # "load") =>
        verr # NoError /\ fs = fs0
  /\ \A i, j \in 1..Len(produced) : i # j => produced[i] # produced[j]
  /\ pc = "done" =>
        /\ Len(produced) = Len(ProjectItems)
        /\ Cardinality(DOMAIN fs.entries) = Len(ProjectItems)

C4_Witness ==
  /\ pc = "failed"
  /\ HasDuplicateSlug
  /\ verr = DuplicateSlugError(ProjectItems[1].slug)
  /\ fs0.entries # DirsOf({})

\* C5 as stated: in a run that fails, at whichever step, no output has been
\* produced (index.html not written, projects directory not modified).
C5_NoOutputOnAnyFailure == Failed => fs = fs0

\* C5 amended: a run that fails at content load, validation, template read or
\* index render has produced no output; a run that fails at a later step has
\* already written index.html (failure of the directory clear, of the
\* directory creation or of a project page) and may have cleared the projects
\* directory and written the pages of the projects before the failing one.
C5_NoOutputBeforeIndexWrite ==
  /\ (Failed /\ failedAt \in {"load", "validate", "templates", "renderIndex"}) => fs = fs0
  /\ (Failed /\ failedAt \in {"rmProjects", "mkdirProjects", "page"}) =>
        /\ fs.index = indexHtml
        /\ indexHtml.kind = "index"
        /\ \A i \in 1..Len(produced) : fs.entries[produced[i]].kind = "project"

C5_Witness ==
  /\ pc = "failed"
  /\ failedAt = "page"
  /\ k = 1
  /\ fs.index # fs0.index
  /\ DOMAIN fs.entries # DOMAIN fs0.entries

\* C7: validateContent accepts every valid document, and for a single
\* violation introduced into a valid document (empty required field, malformed
\* slug, duplicate slug, duplicate order, facts/screens/contrib/ctas length out
\* of range, unknown section) it throws an error whose message names the field
\* path of the violated field.
ListedViolations ==
  {"emptyRequired", "malformedSlug", "duplicateSlug", "duplicateOrder", "lengthRange",
   "unknownSection"}
Validated == pc \notin {"start", "loaded"} /\ failedAt # "load"
NamesInjectedPath ==
  /\ verr.ptr = injected.ptr
  /\ verr.idx \in injected.idxs
  /\ verr.field = injected.field
C7_ValidatorNamesFieldPath ==
  Validated =>
    /\ injected.kind = "valid" => verr = NoError
    /\ injected.kind \in ListedViolations => verr # NoError /\ NamesInjectedPath

(***************************************************************************)
(* The pure functions on their own: Init draws the arguments, the one      *)
(* action of each specification applies the function.                      *)
(***************************************************************************)
BuildIdle ==
  /\ content = TwoProjects
  /\ injected = Tag("free", "", {}, "")
  /\ fs0 = [index |-> NoFile, projectsDir |-> FALSE, entries |-> DirsOf({})]
  /\ fs = fs0
  /\ BuildStart
  /\ run = 1

UNCHANGED_Build ==
  UNCHANGED <<content, injected, fs, fs0, verr, projects, context, indexHtml, k, produced,
              failedAt, stdout, exitCode, run>>

\* ---- renderTemplate ----
KeyA == <<"A">>
KeyB == <<"B">>
RenderPieces == {TokenOf(KeyA), TokenOf(KeyB), <<"x">>}

RECURSIVE Texts(_)
Texts(n) ==
  IF n = 0 THEN {<<>>}
  ELSE Texts(n - 1) \cup {t \o q : t \in Texts(n - 1), q \in RenderPieces}

\* the entries of a mapping with keys among A, B, in either insertion order
Mappings ==
  {<<>>}
  \cup {<<<<key, v>>>> : key \in {KeyA, KeyB}, v \in Texts(1)}
  \cup {<<<<KeyA, v>>, <<KeyB, w>>>> : v \in Texts(1), w \in Texts(1)}
  \cup {<<<<KeyB, v>>, <<KeyA, w>>>> : v \in Texts(1), w \in Texts(1)}

InitRender ==
  /\ pc = "call"
  /\ args \in {[template |-> t, replacements |-> m] : t \in Texts(MaxPieces), m \in Mappings}
  /\ ret = <<>>
  /\ BuildIdle
  /\ browser = BrowserIdle

CallRenderTemplate ==
  /\ pc = "call"
  /\ ret' = renderTemplate(args.template, args.replacements)
  /\ pc' = "ret"
  /\ UNCHANGED <<args, browser>>
  /\ UNCHANGED_Build

SpecRender == InitRender /\ [][CallRenderTemplate]_vars

HasKey(m, key) == \E i \in 1..Len(m) : m[i][1] = key
ValueOf(m, key) == m[CHOOSE i \in 1..Len(m) : m[i][1] = key][2]

\* the template with each token of a mapping key, as it occurs in the
\* template, replaced by the key's value, and nothing else touched
RECURSIVE ReplaceTemplateTokens(_, _)
ReplaceTemplateTokens(t, m) ==
  IF t = <<>> THEN <<>>
  ELSE IF \E key \in {KeyA, KeyB} : HasKey(m, key) /\ startsWith(t, TokenOf(key))
       THEN LET key == CHOOSE q \in {KeyA, KeyB} : HasKey(m, q) /\ startsWith(t, TokenOf(q))
            IN  ValueOf(m, key) \o ReplaceTemplateTokens(SubSeq(t, Len(TokenOf(key)) + 1, Len(t)), m)
       ELSE <<Head(t)>> \o ReplaceTemplateTokens(Tail(t), m)

\* C6: renderTemplate never re-scans replacement values: the output is the
\* template with its own tokens replaced, and a token that occurs only inside
\* a replacement value is left verbatim, whatever the keys and their order.
C6_ValuesNeverRescanned ==
  pc = "ret" => ret = ReplaceTemplateTokens(args.template, args.replacements)

\* ---- clampInt ----
HintValues ==
  {Absent, Null, Str(<<>>), Str(<<" ">>), Str(<<"z">>), NaNValue, PosInf, NegInf,
   Int2(20), Str(<<"2", "0">>), Str(<<"-", "1">>), Str(<<" ", "3", " ">>)}
  \cup {Num(h) : h \in -3..(2 * MaxHint + 1)}

\* the (min, max, fallback) combinations of the six calls in buildProjectCard
ClampCalls ==
  {<<1, 12, 6>>, <<1, 12, 4>>, <<1, 6, 2>>, <<1, 6, 1>>, <<1, 4, 4>>}
  \cup {<<1, 8, f>> : f \in 1..4}
  \cup {<<1, 6, f>> : f \in 1..6}

InitClamp ==
  /\ pc = "call"
  /\ args \in {[value |-> v, min |-> c[1], max |-> c[2], fallback |-> c[3]]
                 : v \in HintValues, c \in ClampCalls}
  /\ ret = <<>>
  /\ BuildIdle
  /\ browser = BrowserIdle

CallClampInt ==
  /\ pc = "call"
  /\ ret' = clampInt(args.value, args.min, args.max, args.fallback)
  /\ pc' = "ret"
  /\ UNCHANGED <<args, browser>>
  /\ UNCHANGED_Build

SpecClamp == InitClamp /\ [][CallClampInt]_vars

\* absent property, null, empty string, NaN, non-numeric text, infinity
MissingOrNonFinite(v) ==
  \/ v.t \in {"absent", "null", "nan", "inf", "-inf"}
  \/ v.t = "str" /\ (Trim(v.s) = <<>> \/ StrToNumber(v.s) = NaNValue)

\* C9: clampInt returns fallback for every missing or non-finite value
\* (absent, null, empty string, NaN, non-numeric text, infinity) and
\* floor(value) clamped into [min, max] for every finite number.
C9_FallbackOrFlooredClamp ==
  pc = "ret" =>
    /\ MissingOrNonFinite(args.value) => ret = args.fallback
    /\ args.value.t = "num" =>
         LET f == args.value.h \div 2 IN
         ret = (IF f < args.min THEN args.min ELSE IF f > args.max THEN args.max ELSE f)

\* ---- buildProjectCard ----
CardHints == {Absent, Null, Int2(20), Num(5), Int2(-1)}

CardProjects ==
  { [BaseProject(2, Str(SlugName(2)), Int2(1)) EXCEPT !.bento = b, !.featured = f]
      : f \in BOOLEAN,
        b \in {NoHints}
              \cup { [t |-> "obj", colSpan |-> c, rowSpan |-> r, colSpanTablet |-> ct,
                      rowSpanTablet |-> rt, colSpanMobile |-> cm, rowSpanMobile |-> rm]
                     : c \in CardHints, r \in CardHints, ct \in CardHints,
                       rt \in CardHints, cm \in CardHints, rm \in CardHints } }

InitCard ==
  /\ pc = "call"
  /\ args \in CardProjects
  /\ ret = <<>>
  /\ BuildIdle
  /\ browser = BrowserIdle

CallBuildProjectCard ==
  /\ pc = "call"
  /\ ret' = buildProjectCard(args, NoContext)
  /\ pc' = "ret"
  /\ UNCHANGED <<args, browser>>
  /\ UNCHANGED_Build

SpecCard == InitCard /\ [][CallBuildProjectCard]_vars

NoHint(v) == v.t = "absent"

\* C8: the six spans lie in their bounds (desktop col 1..12 and row 1..6,
\* tablet col 1..8 and row 1..6, mobile col 1..4 and row 1..6); a span without
\* an explicit hint equals its default (desktop col 6 / row 2 if featured else
\* 4 / 1, tablet col min(desktop col, 4), tablet row = desktop row, mobile col
\* 4, mobile row 2 if desktop row > 1 else 1); an explicit colSpan of 20 gives
\* desktop col 12.
C8_SpansBoundedAndDefaulted ==
  pc = "ret" =>
    LET b == args.bento IN
    /\ ret.col \in 1..12 /\ ret.row \in 1..6
    /\ ret.colTablet \in 1..8 /\ ret.rowTablet \in 1..6
    /\ ret.colMobile \in 1..4 /\ ret.rowMobile \in 1..6
    /\ NoHint(b.colSpan) => ret.col = (IF args.featured THEN 6 ELSE 4)
    /\ NoHint(b.rowSpan) => ret.row = (IF args.featured THEN 2 ELSE 1)
    /\ NoHint(b.colSpanTablet) => ret.colTablet = (IF ret.col < 4 THEN ret.col ELSE 4)
    /\ NoHint(b.rowSpanTablet) => ret.rowTablet = ret.row
    /\ NoHint(b.colSpanMobile) => ret.colMobile = 4
    /\ NoHint(b.rowSpanMobile) => ret.rowMobile = (IF ret.row > 1 THEN 2 ELSE 1)
    /\ b.colSpan = Int2(20) => ret.col = 12

C8_Witness ==
  /\ pc = "ret"
  /\ args.featured
  /\ args.bento.colSpan = Int2(20)
  /\ ret.col = 12
  /\ NoHint(args.bento.rowSpan) /\ ret.row = 2
  /\ NoHint(args.bento.colSpanTablet) /\ ret.colTablet = 4
  /\ NoHint(args.bento.rowSpanMobile) /\ ret.rowMobile = 2

\* ---- normalizeBasePath, withBasePath, toAbsoluteUrl ----
RECURSIVE PathStrings(_)
PathStrings(n) ==
  IF n = 0 THEN {<<>>}
  ELSE PathStrings(n - 1) \cup {t \o <<c>> : t \in PathStrings(n - 1), c \in {"/", "s", " "}}

BasePaths == PathStrings(MaxPathLen) \cup {<<"s", "u", "b">>, <<"/", "s", "u", "b", "/">>}

UrlPaths ==
  {<<"/", "x">>, <<"x">>, <<"h", "t", "t", "p", ":", "/", "/", "h", "/", "x">>,
   <<"H", "T", "T", "P", "S", ":", "/", "/", "h">>, <<"h", "t", "t", "p", "s", ":", "/", "x">>,
   <<"/", "h", "t", "t", "p", ":", "/", "/">>}

CanonicalBases == {<<"h", "t", "t", "p", ":", "/", "/", "h">>, <<"h", "t", "t", "p", ":", "/", "/", "h", "/", "/">>}

InitPath ==
  /\ pc = "call"
  /\ args \in {[basePath |-> b, urlPath |-> u, canonicalBase |-> c]
                 : b \in BasePaths, u \in UrlPaths, c \in CanonicalBases}
  /\ ret = <<>>
  /\ BuildIdle
  /\ browser = BrowserIdle

CallNormalizeBasePath ==
  /\ pc = "call"
  /\ ret' = [fn |-> "normalizeBasePath", value |-> normalizeBasePath(Str(args.basePath))]
  /\ pc' = "ret"
  /\ UNCHANGED <<args, browser>>
  /\ UNCHANGED_Build

\* called as in buildSite, on the normalized base path
CallWithBasePath ==
  /\ pc = "call"
  /\ ret' = [fn |-> "withBasePath",
             value |-> withBasePath(normalizeBasePath(Str(args.basePath)), args.urlPath)]
  /\ pc' = "ret"
  /\ UNCHANGED <<args, browser>>
  /\ UNCHANGED_Build

CallToAbsoluteUrl ==
  /\ pc = "call"
  /\ ret' = [fn |-> "toAbsoluteUrl", value |-> toAbsoluteUrl(args.canonicalBase, args.urlPath)]
  /\ pc' = "ret"
  /\ UNCHANGED <<args, browser>>
  /\ UNCHANGED_Build

NextPath == CallNormalizeBasePath \/ CallWithBasePath \/ CallToAbsoluteUrl

SpecPath == InitPath /\ [][NextPath]_vars

\* C10: normalizeBasePath maps "" and "/" to ""; any other input (after the
\* trimming of surrounding white space) gives a prefix that begins with exactly
\* one "/" and does not end with "/"; withBasePath("/sub", "/x") is "/sub/x";
\* withBasePath and toAbsoluteUrl return a URL that begins with http:// or
\* https:// unchanged.
C10_BasePathNormalized ==
  pc = "ret" =>
    /\ ret.fn = "normalizeBasePath" =>
         IF Trim(args.basePath) \in {<<>>, <<"/">>} THEN ret.value = <<>>
         ELSE /\ ret.value # <<>>
              /\ ret.value[1] = "/"
              /\ (Len(ret.value) >= 2 => ret.value[2] # "/")
              /\ ret.value[Len(ret.value)] # "/"
    /\ (ret.fn = "withBasePath" /\ args.basePath = <<"/", "s", "u", "b", "/">>
          /\ args.urlPath = <<"/", "x">>) => ret.value = <<"/", "s", "u", "b", "/", "x">>
    /\ (ret.fn \in {"withBasePath", "toAbsoluteUrl"} /\ IsHttpUrl(args.urlPath)) =>
         ret.value = args.urlPath

ConfiguredSections == content.site.indexSections.items
\* the heading a section name is shown under
HeadingOf(v) == EscapeSeq(toText(v))
\* position of the first configured section shown under heading h
FirstPos(h) ==
  CHOOSE q \in 1..Len(ConfiguredSections) :
    /\ HeadingOf(ConfiguredSections[q]) = h
    /\ \A r \in 1..(q - 1) : HeadingOf(ConfiguredSections[r]) # h
\* the places <<section, card>> of the fragment
CardPlaces(secs) ==
  UNION {{<<i, j>> : j \in 1..Len(secs[i].cards)} : i \in 1..Len(secs)}
\* the title a project's card carries (the documents give every project a
\* title of its own)
CardTitle(project) == EscapeSeq(toText(project.title))
CardProject(card) ==
  ProjectItems[CHOOSE n \in 1..Len(ProjectItems) : CardTitle(ProjectItems[n]) = card.title]

\* C13: the sections of the rendered index page come in the configured
\* indexSections order, none of them is empty, every project of the document
\* has its card in exactly one section, the one named by its section field,
\* no other card is listed, and the cards inside a section are in ascending
\* numeric order.
C13_SectionsInConfiguredOrder ==
  indexHtml.kind = "index" =>
    LET secs == indexHtml.sections IN
    /\ \A i \in 1..Len(secs) :
         /\ secs[i].cards # <<>>
         /\ \E q \in 1..Len(ConfiguredSections) : HeadingOf(ConfiguredSections[q]) = secs[i].name
         /\ \A j \in 1..(i - 1) : FirstPos(secs[j].name) < FirstPos(secs[i].name)
         /\ \A a, b \in 1..Len(secs[i].cards) :
              a < b => OrderOf(CardProject(secs[i].cards[a])) < OrderOf(CardProject(secs[i].cards[b]))
    /\ Cardinality(CardPlaces(secs)) = Len(ProjectItems)
    /\ \A n \in 1..Len(ProjectItems) :
         LET at == {ij \in CardPlaces(secs) : secs[ij[1]].cards[ij[2]].title = CardTitle(ProjectItems[n])}
         IN  /\ Cardinality(at) = 1
             /\ \A ij \in at :
                  /\ secs[ij[1]].name = HeadingOf(ProjectItems[n].section)
                  /\ secs[ij[1]].cards[ij[2]].href = HrefOf(ProjectItems[n])

C13_Witness ==
  /\ pc = "done"
  /\ fs.index = indexHtml
  /\ ConfiguredSections = <<SectionC, SectionA, SectionBsp>>
  /\ Len(ProjectItems) = 3
  /\ Len(indexHtml.sections) = 2
  /\ indexHtml.sections[1].name = <<"C">>
  /\ indexHtml.sections[2].name = <<"B">>
  /\ Len(indexHtml.sections[2].cards) = 2
  /\ ProjectItems[1].section = SectionBsp

\* C12: when a run of buildSite that follows a completed run on the same
\* content document and templates completes, the output tree (index.html and
\* every projects/<slug>/index.html) is identical to the one the run before
\* left.
C12_SecondRunLeavesSameTree ==
  (run >= 2 /\ pc = "done") => fs = fs0

C12_Witness ==
  /\ run = 2
  /\ pc = "done"
  /\ Len(projects) >= 2
  /\ fs.index = indexHtml
  /\ fs.index.kind # "none"
  /\ DOMAIN fs.entries = {JsString(projects[i].slug) : i \in 1..Len(projects)}

AllFilesWritten ==
  /\ fs.index = indexHtml
  /\ indexHtml.kind = "index"
  /\ \A i \in 1..Len(ProjectItems) :
       /\ JsString(ProjectItems[i].slug) \in DOMAIN fs.entries
       /\ fs.entries[JsString(ProjectItems[i].slug)].kind = "project"

\* C14: a run in which a step of buildSite threw ends with a non-zero exit
\* status and exactly one printed line, the "Build failed" error line; a run
\* in which no step threw ends with exit status zero, having printed the
\* number of projects, the relative path of index.html and the path
\* projects/<slug>/index.html of every project and no error line; nothing but
\* the error line is printed before all files have been written.
C14_ExitStatusAndReport ==
  /\ pc = "threw" => failedAt # "" /\ stdout = <<>>
  /\ pc = "failed" =>
       /\ failedAt # ""
       /\ exitCode # 0
       /\ stdout = <<Line("error", 0, <<>>)>>
  /\ pc = "done" =>
       /\ failedAt = ""
       /\ exitCode = 0
       /\ Len(stdout) = 2 + Len(ProjectItems)
       /\ stdout[1] = Line("count", Len(ProjectItems), <<>>)
       /\ stdout[2] = Line("path", 0, IndexFile)
       /\ {stdout[i] : i \in 3..Len(stdout)}
            = {Line("path", 0, PagePath(ProjectItems[i])) : i \in 1..Len(ProjectItems)}
  /\ pc \notin {"threw", "failed", "done"} => failedAt = "" /\ stdout = <<>> /\ exitCode = 0
  /\ (\E i \in 1..Len(stdout) : stdout[i].kind # "error") => AllFilesWritten

C14_Witness ==
  /\ pc = "done"
  /\ Len(stdout) = 5
  /\ fs0.index = StaleFile
  /\ AllFilesWritten

\* ---- escapeHtml, escapeAttr, buildCtaLink ----
RECURSIVE EscapeTexts(_)
EscapeTexts(n) ==
  IF n = 0 THEN {<<>>}
  ELSE EscapeTexts(n - 1)
       \cup {t \o <<c>> : t \in EscapeTexts(n - 1), c \in {"&", "<", ">", "\"", "'", "a", ";", " "}}

AllFive == <<"<", ">", "&", "\"", "'">>
EscapeValues ==
  {Str(t) : t \in EscapeTexts(MaxTextLen) \cup {AllFive, <<"&", "a", "m", "p", ";">>, <<"&", "l", "t", ";">>}}
  \cup {Null, Absent, Int2(5)}

CtaUrls ==
  { Str(<<"/", "g", "?", "a", "&", "b">>),
    Str(<<"h", "t", "t", "p", ":", "/", "/", "h", "/", "'", "x">>),
    Str(<<" ", "H", "T", "T", "P", "S", ":", "/", "/", "h", "\"", ">">>),
    Str(<<"\"", ">", "<", "a">>),
    Null }

InitEscape ==
  /\ pc = "call"
  /\ args \in {[value |-> v, url |-> u] : v \in EscapeValues, u \in CtaUrls}
  /\ ret = <<>>
  /\ BuildIdle
  /\ browser = BrowserIdle

CallEscapeHtml ==
  /\ pc = "call"
  /\ ret' = [fn |-> "escapeHtml", value |-> escapeHtml(args.value)]
  /\ pc' = "ret"
  /\ UNCHANGED <<args, browser>>
  /\ UNCHANGED_Build

CallEscapeAttr ==
  /\ pc = "call"
  /\ ret' = [fn |-> "escapeAttr", value |-> escapeAttr(args.value)]
  /\ pc' = "ret"
  /\ UNCHANGED <<args, browser>>
  /\ UNCHANGED_Build

CallBuildCtaLink ==
  /\ pc = "call"
  /\ ret' = [fn |-> "buildCtaLink", value |-> buildCtaLink(Cta(args.value, args.url), "button")]
  /\ pc' = "ret"
  /\ UNCHANGED <<args, browser>>
  /\ UNCHANGED_Build

NextEscape == CallEscapeHtml \/ CallEscapeAttr \/ CallBuildCtaLink

SpecEscape == InitEscape /\ [][NextEscape]_vars

Entities ==
  { <<"&", "a", "m", "p", ";">>, <<"&", "l", "t", ";">>, <<"&", "g", "t", ";">>,
    <<"&", "q", "u", "o", "t", ";">>, <<"&", "#", "3", "9", ";">> }

\* out holds none of < > " ' and every & of it starts one of the five entities
NoRawMarkup(out) ==
  \A i \in 1..Len(out) :
    /\ out[i] \notin {"<", ">", "\"", "'"}
    /\ out[i] = "&" =>
         \E e \in Entities : i + Len(e) - 1 <= Len(out) /\ SubSeq(out, i, i + Len(e) - 1) = e

\* out is text (as the builders read it: converted to a string and trimmed)
\* with each of the five characters replaced by its entity exactly once
EscapedOnce(out, v) == NoRawMarkup(out) /\ out = EscapeSeq(toText(v))

\* C15: the string escapeHtml and escapeAttr return for a text value, and the
\* label and the URL buildCtaLink inserts for a CTA, contain no raw < > " ' and
\* no & other than the start of one of the five entities, each occurrence of
\* the five characters of the text being replaced by its entity exactly once.
C15_EscapedExactlyOnce ==
  pc = "ret" =>
    IF ret.fn = "buildCtaLink"
    THEN /\ EscapedOnce(ret.value.label, args.value)
         /\ EscapedOnce(ret.value.href, args.url)
    ELSE EscapedOnce(ret.value, args.value)

C15_Witness ==
  /\ pc = "ret"
  /\ ret.fn = "buildCtaLink"
  /\ args.value = Str(AllFive)
  /\ Len(ret.value.label) = 24
  /\ ret.value.attrs = ExternalAttrs
  /\ \E i \in 1..Len(ret.value.href) : ret.value.href[i] = "&"

(***************************************************************************)
(* The theme-toggle script of assets/app.js                                *)
(***************************************************************************)
storageKey == "portfolio-theme"

\* applyTheme(theme): whether the root element carries data-theme="dark"
\* after the call
applyTheme(theme) == theme = "dark"

InitTheme ==
  /\ pc = "page"
  /\ browser = BrowserIdle
  /\ args = <<>>
  /\ ret = <<>>
  /\ BuildIdle

\* a page of the site is loaded and the script runs (lines 1-25): the fresh
\* document's root element has no data-theme attribute, getItem may throw, a
\* saved value is applied when there is one
PageLoad ==
  /\ pc = "page"
  /\ browser.events < MaxEvents
  /\ \E hasToggle, readOk \in BOOLEAN :
       LET saved == IF readOk THEN browser.stored ELSE "null" IN
       browser' = [browser EXCEPT
                     !.loaded = TRUE,
                     !.dark = IF saved # "null" THEN applyTheme(saved) ELSE FALSE,
                     !.toggle = hasToggle,
                     !.readsOk = @ /\ readOk,
                     !.events = @ + 1,
                     !.last = IF browser.loaded THEN "reload" ELSE "load",
                     !.shown = browser.dark]
  /\ UNCHANGED <<pc, args, ret>>
  /\ UNCHANGED_Build

\* Click with the current theme stored instead of the next one
ClickStoresCurrent ==
  /\ pc = "page"
  /\ browser.loaded /\ browser.toggle
  /\ browser.events < MaxEvents
  /\ \E writeOk \in BOOLEAN :
       LET current == IF browser.dark THEN "dark" ELSE "light"
           next == IF current = "dark" THEN "light" ELSE "dark"
       IN  browser' = [browser EXCEPT
                         !.dark = applyTheme(next),
                         !.stored = IF writeOk THEN current ELSE @,
                         !.writesOk = @ /\ writeOk,
                         !.events = @ + 1,
                         !.last = "click",
                         !.shown = browser.dark]
  /\ UNCHANGED <<pc, args, ret>>
  /\ UNCHANGED_Build

\* the click listener (lines 27-36); setItem may throw
Click ==
  /\ pc = "page"
  /\ browser.loaded /\ browser.toggle
  /\ browser.events < MaxEvents
  /\ \E writeOk \in BOOLEAN :
       LET current == IF browser.dark THEN "dark" ELSE "light"
           next == IF current = "dark" THEN "light" ELSE "dark"
       IN  browser' = [browser EXCEPT
                         !.dark = applyTheme(next),
                         !.stored = IF writeOk THEN next ELSE @,
                         !.writesOk = @ /\ writeOk,
                         !.events = @ + 1,
                         !.last = "click",
                         !.shown = browser.dark]
  /\ UNCHANGED <<pc, args, ret>>
  /\ UNCHANGED_Build

NextTheme == PageLoad \/ Click

SpecTheme == InitTheme /\ [][NextTheme]_vars

ClickFlips == browser.last = "click" => browser.dark # browser.shown
StoredMatchesRoot == browser.stored = "dark" <=> browser.dark
ReloadRestores == browser.last = "reload" => browser.dark = browser.shown

\* C16 as stated: each click flips the applied theme, whether or not storage
\* reads and writes fail; after any sequence of page loads and clicks in which
\* every write succeeded, the stored value is "dark" exactly when the root
\* element carries data-theme="dark", and a reload shows the theme shown
\* before it.
C16_StoredMatchesRootIfWritesSucceed ==
  /\ ClickFlips
  /\ (browser.loaded /\ browser.writesOk) => StoredMatchesRoot /\ ReloadRestores

\* C16 amended: each click flips the applied theme, whether or not storage
\* reads and writes fail; after any sequence of page loads and clicks in which
\* every read and every write succeeded, the stored value is "dark" exactly
\* when the root element carries data-theme="dark", and a reload shows the
\* theme shown before it.
C16_StoredMatchesRootIfStorageWorks ==
  /\ ClickFlips
  /\ (browser.loaded /\ browser.writesOk /\ browser.readsOk) =>
        StoredMatchesRoot /\ ReloadRestores

C16_Witness ==
  /\ browser.last = "reload"
  /\ browser.readsOk /\ browser.writesOk
  /\ browser.stored = "dark"
  /\ browser.dark
  /\ browser.events = 3

\* ---- truncate ----
RECURSIVE TruncTexts(_)
TruncTexts(n) ==
  IF n = 0 THEN {<<>>}
  ELSE TruncTexts(n - 1) \cup {t \o <<c>> : t \in TruncTexts(n - 1), c \in {"a", "b", " "}}

InitTruncate ==
  /\ pc = "call"
  /\ args \in {[text |-> t, limit |-> n]
                 : t \in TruncTexts(MaxTextLen) \cup {<<"a", "b", "c", "d", "e", "f", "g", "h">>},
                   n \in 0..MaxLimit}
  /\ ret = <<>>
  /\ BuildIdle
  /\ browser = BrowserIdle

CallTruncate ==
  /\ pc = "call"
  /\ ret' = truncate(Str(args.text), args.limit)
  /\ pc' = "ret"
  /\ UNCHANGED <<args, browser>>
  /\ UNCHANGED_Build

SpecTruncate == InitTruncate /\ [][CallTruncate]_vars

\* C11: for every text and every limit the result of truncate has length at
\* most limit; a text (surrounding white space aside) shorter than the limit is
\* returned unchanged, a longer one as its first limit-1 characters followed by
\* one ellipsis character; truncate("abcdefgh", 5) is "abcd" followed by the ellipsis.
C11_TruncateWithinLimit ==
  pc = "ret" =>
    LET raw == Trim(args.text) IN
    /\ Len(ret) <= args.limit
    /\ Len(raw) < args.limit => ret = raw
    /\ Len(raw) > args.limit =>
         /\ Len(ret) = args.limit
         /\ \A i \in 1..(args.limit - 1) : ret[i] = raw[i]
         /\ ret[Len(ret)] = Ellipsis
    /\ (args.text = <<"a", "b", "c", "d", "e", "f", "g", "h">> /\ args.limit = 5) =>
         ret = <<"a", "b", "c", "d", Ellipsis>>

====
